---- MODULE Spec2Model ----
(***************************************************************************)
(* Tixel: the Terrain class of tixel.py (base layer, smoothing, elevation, *)
(* tile instances, pointing, selection, retyping, deletion) and the helper *)
(* functions it calls.                                                      *)
(*                                                                          *)
(* A numpy array is a record [shape |-> <<d0, d1>>, cells |-> f] with f a  *)
(* function on Cells(d0, d1), indexed from 0 as in the source.  A Tile      *)
(* object is named by [gen, elevation, index]: gen = 0 for an object made   *)
(* by the latest generate_tiles, 1 for an object of an earlier one that is  *)
(* still referenced; its mutable attributes live in attr.  Heightmap values *)
(* are exact fractions <<n, d>> until np.trunc.  A call that raises leaves  *)
(* the state as mutated so far and records the exception in outcome; the     *)
(* exception is not caught by main.py, so the program stops there.          *)
(***************************************************************************)
EXTENDS Integers, Sequences, FiniteSets, TLC

VARIABLES terrain_width, terrain_height, tile_width, tile_height, tile_thickness,
          elevation_symbol, elevation, elevation_iterations,
          tiles, selected_tiles, pointed_tile, attr,
          base_layer, heightmap, terrain,
          lastOp, outcome, call, tile_checkboxes

vars == <<terrain_width, terrain_height, tile_width, tile_height, tile_thickness,
          elevation_symbol, elevation, elevation_iterations,
          tiles, selected_tiles, pointed_tile, attr,
          base_layer, heightmap, terrain, lastOp, outcome, call,
          tile_checkboxes>>

----------------------------------------------------------------------------
(* Bounds of the model *)

MaxDim == 2
MaxElev == 3
MaxIter == 1
MaxSel == 2
MaxHits == 2
\* Significand width of the floating-point numbers of the model, standing
\* for the 53 bits of a Python float
MantissaBits == 4
\* Cartesian coordinates handed to _cart_to_iso run up to MaxCoord / 2
MaxCoord == 16
\* Arrays handed to _get_neighbor_tiles on its own have 2..MaxGrid rows and
\* columns
MaxGrid == 3

----------------------------------------------------------------------------
(* Values *)

EMPTY == "0"
None == "None"
\* outcome of the last call: it ran to its end, it returned at a
\* precondition check, or it raised
NoError == "done"
Returned == "return"

\* self.heightmap = None: no array
NoArray == [shape |-> <<-1, -1>>, cells |-> <<>>]

\* self.pointed_tile = None: no Tile object
NoTile == [gen |-> -1, elevation |-> 0, index |-> <<0, 0>>]

\* TileInformation.tile_types for a tile directory holding two files
tile_types == <<"1", "2">>

TypeSet == {tile_types[n] : n \in 1..Len(tile_types)}

Cells(d0, d1) == (0..(d0 - 1)) \X (0..(d1 - 1))

\* np.full / np.empty / np.zeros of a given shape
np_full(d0, d1, v) == [shape |-> <<d0, d1>>, cells |-> [c \in Cells(d0, d1) |-> v]]

\* The cells of an array in row-major order: for i in range(d0): for j in range(d1)
RowMajor(d0, d1) ==
  IF d0 <= 0 \/ d1 <= 0 THEN <<>>
  ELSE [n \in 1..(d0 * d1) |-> <<(n - 1) \div d1, (n - 1) % d1>>]

InRange(a, c) == c[1] \in 0..(a.shape[1] - 1) /\ c[2] \in 0..(a.shape[2] - 1)

SetCell(a, c, v) == [a EXCEPT !.cells = [a.cells EXCEPT ![c] = v]]

\* list.remove(x): drops the first element equal to x
RECURSIVE ListRemove(_, _)
ListRemove(s, x) ==
  IF s = <<>> THEN <<>>
  ELSE IF Head(s) = x THEN Tail(s)
  ELSE <<Head(s)>> \o ListRemove(Tail(s), x)

Range(s) == {s[n] : n \in 1..Len(s)}

----------------------------------------------------------------------------
(* Exact fractions for the float grid of _generate_heightmap *)

RECURSIVE GCD(_, _)
GCD(a, b) == IF b = 0 THEN a ELSE GCD(b, a % b)

Norm(n, d) == IF n = 0 THEN <<0, 1>> ELSE LET g == GCD(n, d) IN <<n \div g, d \div g>>

RAdd(p, q) ==
  LET g == GCD(p[2], q[2])
      l == (p[2] \div g) * q[2]
  IN Norm(p[1] * (l \div p[2]) + q[1] * (l \div q[2]), l)

RECURSIVE RSum(_)
RSum(s) == IF s = <<>> THEN <<0, 1>> ELSE RAdd(Head(s), RSum(Tail(s)))

\* p / k for an integer k > 0
RDiv(p, k) == LET g == GCD(p[1], k) IN
  IF p[1] = 0 THEN <<0, 1>> ELSE <<p[1] \div g, p[2] * (k \div g)>>

\* np.trunc of a non-negative value
\* np.round in place of np.trunc: to the nearest integer
RoundNearest(p) == (2 * p[1] + p[2]) \div (2 * p[2])

Trunc(p) == p[1] \div p[2]

----------------------------------------------------------------------------
(* Helper functions of tixel.py *)

\* A probability mapping is the sequence of weights of tile_types, in the
\* dict's insertion order; weights and draws are counted in units of
\* 1/ProbScale, so a draw in [0,1) is a number in 0..ProbScale-1.
ProbScale == 2

Draws == 0..(ProbScale - 1)

RECURSIVE _accumulate_probabilities(_)
_accumulate_probabilities(probabilities) ==
  IF probabilities = <<>> THEN <<>>
  ELSE LET front == _accumulate_probabilities(SubSeq(probabilities, 1, Len(probabilities) - 1))
           accum_probability == IF front = <<>> THEN 0 ELSE front[Len(front)]
       IN Append(front, accum_probability + probabilities[Len(probabilities)])

\* _assign_tile comparing with <= instead of <
AssignTileInclusive(number, accum_probabilities) ==
  LET ks == {k \in 1..Len(accum_probabilities) : number <= accum_probabilities[k]}
  IN IF ks = {} THEN None
     ELSE tile_types[CHOOSE k \in ks : \A m \in ks : k <= m]

RECURSIVE AssignFrom(_, _, _)
AssignFrom(number, accum_probabilities, k) ==
  IF k > Len(accum_probabilities) THEN None
  ELSE IF number < accum_probabilities[k] THEN tile_types[k]
  ELSE AssignFrom(number, accum_probabilities, k + 1)

_assign_tile(number, accum_probabilities) == AssignFrom(number, accum_probabilities, 1)

\* The fallback taking the last key of the greatest weight
MostProbableLast(tile_probabilities) ==
  tile_types[CHOOSE k \in 1..Len(tile_probabilities) :
               \A m \in 1..Len(tile_probabilities) :
                 \/ tile_probabilities[m] < tile_probabilities[k]
                 \/ (tile_probabilities[m] = tile_probabilities[k] /\ m <= k)]

\* generate_base_layer's fallback scan: starts at "1", a later key replaces
\* it only with a strictly greater weight
RECURSIVE MostProbableFrom(_, _, _)
MostProbableFrom(tile_probabilities, k, most) ==
  IF k > Len(tile_probabilities) THEN most
  ELSE MostProbableFrom(tile_probabilities, k + 1,
         IF tile_probabilities[k] > tile_probabilities[most] THEN k ELSE most)

most_probable_tile_type(tile_probabilities) ==
  tile_types[MostProbableFrom(tile_probabilities, 1, 1)]

----------------------------------------------------------------------------
(* Python floats.  A float is written as a whole number of quarters (the   *)
(* coordinates generate_tiles computes are multiples of 1/2, and halving   *)
(* them gives multiples of 1/4); the result of an addition or subtraction  *)
(* is rounded to MantissaBits significant bits, to nearest, ties to even.  *)
(* Doubling and halving only change the exponent and are exact.            *)

Abs(v) == IF v < 0 THEN 0 - v ELSE v

RECURSIVE Pow2(_)
Pow2(n) == IF n <= 0 THEN 1 ELSE 2 * Pow2(n - 1)

\* The spacing of the floats around a value of magnitude m
RECURSIVE Ulp(_, _)
Ulp(m, q) == IF m < Pow2(MantissaBits) * q THEN q ELSE Ulp(m, 2 * q)

RoundTo(v) ==
  LET m == Abs(v)
      q == Ulp(m, 1)
      lo == (m \div q) * q
      rest == m - lo
      r == IF 2 * rest < q THEN lo
           ELSE IF 2 * rest > q THEN lo + q
           ELSE IF (lo \div q) % 2 = 0 THEN lo ELSE lo + q
  IN IF v < 0 THEN 0 - r ELSE r

FAdd(x, y) == RoundTo(x + y)

FSub(x, y) == RoundTo(x - y)

FHalf(v) == v \div 2

----------------------------------------------------------------------------
(* Helper functions on arrays *)

\* An index as numpy reads it: a negative one counts from the end
NpIndex(a, c) ==
  <<IF c[1] < 0 THEN c[1] + a.shape[1] ELSE c[1],
    IF c[2] < 0 THEN c[2] + a.shape[2] ELSE c[2]>>

\* The eight indices around (i, j), whatever the shape
NeighborPositionsAllEight(height, width, i, j) ==
  <<<<i, j - 1>>, <<i + 1, j - 1>>, <<i + 1, j>>, <<i + 1, j + 1>>,
    <<i, j + 1>>, <<i - 1, j + 1>>, <<i - 1, j>>, <<i - 1, j - 1>>>>

\* The indices _get_neighbor_tiles reads, in the order it lists them
NeighborPositions(height, width, i, j) ==
  IF i = 0 THEN
    IF j = 0 THEN <<<<i, j + 1>>, <<i + 1, j>>, <<i + 1, j + 1>>>>
    ELSE IF j = width - 1 THEN <<<<i, j - 1>>, <<i + 1, j>>, <<i + 1, j - 1>>>>
    ELSE <<<<i, j - 1>>, <<i + 1, j>>, <<i + 1, j - 1>>, <<i + 1, j + 1>>, <<i, j + 1>>>>
  ELSE IF i = height - 1 THEN
    IF j = 0 THEN <<<<i, j + 1>>, <<i - 1, j>>, <<i - 1, j + 1>>>>
    ELSE IF j = width - 1 THEN <<<<i, j - 1>>, <<i - 1, j>>, <<i - 1, j - 1>>>>
    ELSE <<<<i, j - 1>>, <<i - 1, j>>, <<i - 1, j - 1>>, <<i - 1, j + 1>>, <<i, j + 1>>>>
  ELSE IF j = 0 THEN
    <<<<i - 1, j>>, <<i - 1, j + 1>>, <<i, j + 1>>, <<i + 1, j + 1>>, <<i + 1, j>>>>
  ELSE IF j = width - 1 THEN
    <<<<i - 1, j>>, <<i - 1, j - 1>>, <<i, j - 1>>, <<i + 1, j - 1>>, <<i + 1, j>>>>
  ELSE
    <<<<i, j - 1>>, <<i + 1, j - 1>>, <<i + 1, j>>, <<i + 1, j + 1>>,
      <<i, j + 1>>, <<i - 1, j + 1>>, <<i - 1, j>>, <<i - 1, j - 1>>>>

\* The list of neighbor values; raised when a read leaves the array (IndexError)
_get_neighbor_tiles(a, position) ==
  LET pos == NeighborPositions(a.shape[1], a.shape[2], position[1], position[2])
      at(n) == NpIndex(a, pos[n])
  IN IF \E n \in 1..Len(pos) : ~InRange(a, at(n))
     THEN [raised |-> TRUE, value |-> <<>>]
     ELSE [raised |-> FALSE, value |-> [n \in 1..Len(pos) |-> a.cells[at(n)]]]

\* iso_y computed with the floor division // in place of /
CartToIsoFloorDiv(x, y) == <<FSub(x, y), (FHalf(FAdd(x, y)) \div 4) * 4>>

\* iso_x = x - y; iso_y = (x + y) / 2
_cart_to_iso(x, y) == <<FSub(x, y), FHalf(FAdd(x, y))>>

CountOf(neighbors, t) == Cardinality({n \in 1..Len(neighbors) : neighbors[n] = t})

\* A scan in which the first coin decides before any count is compared
SetToCoinType(neighbors, tile_list, coins) ==
  IF coins[1] THEN tile_list[Len(tile_list)] ELSE tile_list[1]

\* The scan over tile_count; coins[k] is the outcome of random.random() > 0.5
\* at key k, looked at only when the counts tie
RECURSIVE MostFrequentFrom(_, _, _, _, _)
MostFrequentFrom(neighbors, tile_list, coins, k, most_frequent) ==
  IF k > Len(tile_list) THEN most_frequent
  ELSE LET tile == tile_list[k]
           here == CountOf(neighbors, tile)
           best == CountOf(neighbors, most_frequent)
       IN MostFrequentFrom(neighbors, tile_list, coins, k + 1,
            IF here > best THEN tile
            ELSE IF here = best /\ coins[k] THEN tile
            ELSE most_frequent)

_set_to_neighbor_type(neighbors, tile_list, coins) ==
  MostFrequentFrom(neighbors, tile_list, coins, 1, tile_list[1])

CoinSeqs == [1..Len(tile_types) -> BOOLEAN]

\* The smoothing pass without its skip of the cells at 0
RECURSIVE DiffusePassEveryCell(_, _, _)
DiffusePassEveryCell(r, order, k) ==
  IF r.raised \/ k > Len(order) THEN r
  ELSE LET hm == r.value
           c == order[k]
           nb == _get_neighbor_tiles(hm, c)
           values == Append(nb.value, hm.cells[c])
       IN IF nb.raised THEN [raised |-> TRUE, value |-> hm]
          ELSE DiffusePassEveryCell(
                 [raised |-> FALSE,
                  value |-> SetCell(hm, c, RDiv(RSum(values), Len(values)))],
                 order, k + 1)

\* One pass of the smoothing loop of _generate_heightmap over the cells in
\* row-major order, in place: r is [raised, value], value the float grid
RECURSIVE DiffusePass(_, _, _)
DiffusePass(r, order, k) ==
  IF r.raised \/ k > Len(order) THEN r
  ELSE LET hm == r.value
           c == order[k]
       IN IF hm.cells[c][1] = 0 THEN DiffusePass(r, order, k + 1)
          ELSE LET nb == _get_neighbor_tiles(hm, c)
                   values == Append(nb.value, hm.cells[c])
               IN IF nb.raised THEN [raised |-> TRUE, value |-> hm]
                  ELSE DiffusePass(
                         [raised |-> FALSE,
                          value |-> SetCell(hm, c, RDiv(RSum(values), Len(values)))],
                         order, k + 1)

RECURSIVE Diffuse(_, _)
Diffuse(r, iterations) ==
  IF r.raised \/ iterations <= 0 THEN r
  ELSE Diffuse(DiffusePass(r, RowMajor(r.value.shape[1], r.value.shape[2]), 1),
               iterations - 1)

\* A seeding that leaves the seeded cells one below the elevation
SeedHeightmapBelow(a, symbol, elev) ==
  [shape |-> a.shape,
   cells |-> [c \in DOMAIN a.cells |-> IF a.cells[c] = symbol THEN <<elev - 1, 1>> ELSE <<0, 1>>]]

\* The seeded float grid: elevation on the cells of the marker type, 0 elsewhere
SeedHeightmap(a, symbol, elev) ==
  [shape |-> a.shape,
   cells |-> [c \in DOMAIN a.cells |-> IF a.cells[c] = symbol THEN <<elev, 1>> ELSE <<0, 1>>]]

\* [raised, value]: value is the truncated heightmap (integers)
_generate_heightmap(a, symbol, elev, iterations) ==
  LET r == Diffuse([raised |-> FALSE, value |-> SeedHeightmap(a, symbol, elev)], iterations)
  IN IF r.raised THEN [raised |-> TRUE, value |-> NoArray]
     ELSE [raised |-> FALSE,
           value |-> [shape |-> a.shape,
                      cells |-> [c \in DOMAIN a.cells |-> Trunc(r.value.cells[c])]]]

\* np.max of an integer grid with at least one cell
ArrayMax(a) == CHOOSE m \in {a.cells[c] : c \in DOMAIN a.cells} :
                 \A c \in DOMAIN a.cells : a.cells[c] <= m

----------------------------------------------------------------------------
(* Terrain: the parts of its methods that compute *)

\* The Tile objects generate_tiles appends, in order, until a read of
\* terrain[i][j, k] leaves layer i (IndexError): order is the (j, k) of
\* range(terrain_width) x range(terrain_height), n counts the reads
RECURSIVE GenTilesFrom(_, _, _, _)
GenTilesFrom(terr, order, n, acc) ==
  IF n > Len(terr) * Len(order) THEN [raised |-> FALSE, tiles |-> acc]
  ELSE LET i == (n - 1) \div Len(order)
           c == order[((n - 1) % Len(order)) + 1]
           layer == terr[i + 1]
       IN IF ~InRange(layer, c) THEN [raised |-> TRUE, tiles |-> acc]
          ELSE IF layer.cells[c] = EMPTY THEN GenTilesFrom(terr, order, n + 1, acc)
          ELSE GenTilesFrom(terr, order, n + 1,
                 Append(acc, [gen |-> 0, elevation |-> i + 1, index |-> c]))

generate_tiles(terr, W, H) == GenTilesFrom(terr, RowMajor(W, H), 1, <<>>)

\* for tile in self.tiles: if tile.elevation > 1: self.tiles.remove(tile)
\* (the list shrinks under the loop's index)
RECURSIVE RemoveElevatedFrom(_, _)
RemoveElevatedFrom(list, k) ==
  IF k > Len(list) THEN list
  ELSE IF list[k].elevation > 1 THEN RemoveElevatedFrom(ListRemove(list, list[k]), k + 1)
  ELSE RemoveElevatedFrom(list, k + 1)

\* The layer cell compared one level higher
ElevationCellAbove(hm, c, i, symbol) == IF hm.cells[c] > i + 1 THEN symbol ELSE EMPTY

\* The elevation layers of generate_elevation: range(E) layers of shape
\* (W, H); np.empty raises on a negative side (ValueError) and
\* heightmap[j, k] outside the heightmap (IndexError)
ElevationCell(hm, c, i, symbol) == IF hm.cells[c] > i THEN symbol ELSE EMPTY

RECURSIVE BuildLayers(_, _, _, _, _, _, _)
BuildLayers(hm, E, W, H, symbol, i, acc) ==
  IF i >= E THEN [raised |-> NoError, layers |-> acc]
  ELSE IF W < 0 \/ H < 0 THEN [raised |-> "ValueError", layers |-> acc]
  ELSE IF \E c \in Cells(W, H) : ~InRange(hm, c) THEN [raised |-> "IndexError", layers |-> acc]
  ELSE BuildLayers(hm, E, W, H, symbol, i + 1,
         Append(acc, [shape |-> <<W, H>>,
                      cells |-> [c \in Cells(W, H) |-> ElevationCell(hm, c, i, symbol)]]))

\* A scan that keeps the last hit of the list, whatever its score
RECURSIVE PointedFromLastHit(_, _, _, _, _)
PointedFromLastHit(list, hits, k, pointed, n) ==
  IF k > Len(list) THEN pointed
  ELSE IF list[k] \in hits THEN PointedFromLastHit(list, hits, k + 1, list[k], n)
       ELSE PointedFromLastHit(list, hits, k + 1, pointed, n)

\* update_pointed_tile's scan: hits is the set of tiles with is_hovering true
RECURSIVE PointedFrom(_, _, _, _, _)
PointedFrom(list, hits, k, pointed, n) ==
  IF k > Len(list) THEN pointed
  ELSE LET tile == list[k]
           m == (tile.index[1] + tile.index[2]) * tile.elevation
       IN IF tile \in hits /\ m > n THEN PointedFrom(list, hits, k + 1, tile, m)
          ELSE PointedFrom(list, hits, k + 1, pointed, n)

\* delete_tiles' inner loop: for tile2 in self.tiles: ... self.tiles.remove(tile2)
RECURSIVE RemoveMatching(_, _, _)
RemoveMatching(list, tile, m) ==
  IF m > Len(list) THEN list
  ELSE IF list[m].index = tile.index /\ list[m].elevation = tile.elevation
       THEN RemoveMatching(ListRemove(list, list[m]), tile, m + 1)
       ELSE RemoveMatching(list, tile, m + 1)

\* Can terrain[tile.elevation - 1][tile.index] be written
Writable(terr, tile) ==
  /\ tile.elevation \in 1..Len(terr)
  /\ InRange(terr[tile.elevation], tile.index)

WriteCell(terr, tile, v) ==
  [terr EXCEPT ![tile.elevation] = SetCell(terr[tile.elevation], tile.index, v)]

\* The outer loop of delete_tiles without its test of tile.elevation
RECURSIVE DeleteFromAnyElevation(_, _, _, _)
DeleteFromAnyElevation(sel, list, terr, k) ==
  IF k > Len(sel) THEN [raised |-> FALSE, selected_tiles |-> sel, tiles |-> list, terrain |-> terr]
  ELSE LET tile == sel[k]
           list2 == RemoveMatching(list, tile, 1)
       IN IF ~Writable(terr, tile)
          THEN [raised |-> TRUE, selected_tiles |-> sel, tiles |-> list2, terrain |-> terr]
          ELSE DeleteFromAnyElevation(ListRemove(sel, tile), list2,
                                      WriteCell(terr, tile, EMPTY), k + 1)

\* delete_tiles' outer loop over self.selected_tiles, which it shrinks as it goes
RECURSIVE DeleteFrom(_, _, _, _)
DeleteFrom(sel, list, terr, k) ==
  IF k > Len(sel) THEN [raised |-> FALSE, selected_tiles |-> sel, tiles |-> list, terrain |-> terr]
  ELSE LET tile == sel[k] IN
    IF tile.elevation > 1
    THEN LET list2 == RemoveMatching(list, tile, 1) IN
         IF ~Writable(terr, tile)
         THEN [raised |-> TRUE, selected_tiles |-> sel, tiles |-> list2, terrain |-> terr]
         ELSE DeleteFrom(ListRemove(sel, tile), list2, WriteCell(terr, tile, EMPTY), k + 1)
    ELSE DeleteFrom(sel, list, terr, k + 1)

\* change_selected_tile_type's loop: at is the attribute store
RECURSIVE RetypeFrom(_, _, _, _, _)
RetypeFrom(sel, at, terr, tile_type, k) ==
  IF k > Len(sel) THEN [raised |-> FALSE, attr |-> at, terrain |-> terr]
  ELSE LET tile == sel[k]
           at2 == [at EXCEPT ![tile] = [tile_type |-> tile_type, selected_tile |-> FALSE]]
       IN IF ~Writable(terr, tile) THEN [raised |-> TRUE, attr |-> at2, terrain |-> terr]
          ELSE RetypeFrom(sel, at2, WriteCell(terr, tile, tile_type), tile_type, k + 1)

\* A smoother that may write any type of the universe
WinnersAnyType(neighbors) == TypeSet

\* The types the coin flips can make _set_to_neighbor_type return
Winners(neighbors) == {_set_to_neighbor_type(neighbors, tile_types, coins) : coins \in CoinSeqs}

\* The grids one pass of smooth_base_layer can leave: the cells still to
\* visit are rem, any of them may be next in the shuffled list, and each
\* visit writes in place
RECURSIVE SmoothOutcomes(_, _)
SmoothOutcomes(a, rem) ==
  IF rem = {} THEN {[raised |-> FALSE, value |-> a]}
  ELSE UNION {
         LET nb == _get_neighbor_tiles(a, c) IN
           IF nb.raised THEN {[raised |-> TRUE, value |-> a]}
           ELSE UNION {SmoothOutcomes(SetCell(a, c, t), rem \ {c}) : t \in Winners(nb.value)}
         : c \in rem}

----------------------------------------------------------------------------
(* State *)

Referenced(list, sel, p) == Range(list) \cup Range(sel) \cup (IF p = NoTile THEN {} ELSE {p})

\* The attribute store, kept to the objects still referenced
Collect(at, list, sel, p) == [t \in Referenced(list, sel, p) |-> at[t]]

\* An object of an earlier generate_tiles
Old(t) == IF t = NoTile THEN NoTile ELSE [t EXCEPT !.gen = 1]

Running == outcome \in {NoError, Returned}

config == <<terrain_width, terrain_height, tile_width, tile_height, tile_thickness,
            elevation, elevation_iterations>>

instances == <<tiles, selected_tiles, pointed_tile, attr>>

grids == <<base_layer, heightmap, terrain>>

\* A pygame event as the check boxes read it: its type, its button and the
\* check boxes whose rect contains its position
NoEvent == [type |-> None, button |-> 0, hits |-> {}]

\* CheckBox.__init__ for every tile type: nothing is checked
Unchecked == [k \in Range(tile_types) |-> FALSE]

\* CheckBox.check and CheckBox.uncheck on the check box of tile type k
check(boxes, k) == IF ~boxes[k] THEN [boxes EXCEPT ![k] = TRUE] ELSE boxes

\* An uncheck that leaves the check box as it is
UncheckNothing(boxes, k) == boxes

uncheck(boxes, k) == IF boxes[k] THEN [boxes EXCEPT ![k] = FALSE] ELSE boxes

\* No helper function has been called on its own
NoCall == [fn |-> None, number |-> 0, probabilities |-> <<>>, neighbors |-> <<>>,
           coins |-> [k \in 1..Len(tile_types) |-> FALSE],
           shape |-> <<0, 0>>, position |-> <<0, 0>>, result |-> None,
           event |-> NoEvent]

\* Terrain.__init__ with the values main.py reads from its input boxes
InitDim == MaxDim
InitTileWidth == 32
InitTileHeight == 16
InitTileThickness == 7

Init ==
  /\ terrain_width = InitDim
  /\ terrain_height = InitDim
  /\ tile_width = InitTileWidth
  /\ tile_height = InitTileHeight
  /\ tile_thickness = InitTileThickness
  /\ elevation_symbol = None
  /\ elevation = 1
  /\ elevation_iterations = 1
  /\ tiles = <<>>
  /\ selected_tiles = <<>>
  /\ pointed_tile = NoTile
  /\ attr = <<>>
  /\ base_layer = np_full(InitDim, InitDim, EMPTY)
  /\ heightmap = NoArray
  /\ terrain = <<>>
  /\ lastOp = "__init__"
  /\ outcome = NoError
  /\ call = NoCall
  /\ tile_checkboxes = check(Unchecked, tile_types[1])

\* The call returned at a precondition check
Return(op) ==
  /\ lastOp' = op
  /\ outcome' = Returned
  /\ UNCHANGED <<config, elevation_symbol, instances, grids>>

\* self.generate_tiles(tile_images) on the stack terr: both lists are
\* cleared, then filled until the scan ends or raises
CallGenerateTiles(terr) ==
  LET g == generate_tiles(terr, terrain_width, terrain_height)
      p == Old(pointed_tile)
  IN /\ tiles' = g.tiles
     /\ selected_tiles' = <<>>
     /\ pointed_tile' = p
     /\ attr' = [t \in Referenced(g.tiles, <<>>, p) |->
                  IF t.gen = 0
                  THEN [tile_type |-> terr[t.elevation].cells[t.index], selected_tile |-> FALSE]
                  ELSE attr[pointed_tile]]
     /\ outcome' = IF g.raised THEN "IndexError" ELSE NoError

----------------------------------------------------------------------------
(* Terrain: its methods, and the assignments of main.py's loop *)

update_terrain_info(w, h, tw, th, tt, e, it) ==
  /\ Running
  /\ UNCHANGED <<call, tile_checkboxes>>
  /\ terrain_width' = w
  /\ terrain_height' = h
  /\ tile_width' = tw
  /\ tile_height' = th
  /\ tile_thickness' = tt
  /\ elevation' = e
  /\ elevation_iterations' = it
  /\ lastOp' = "update_terrain_info"
  /\ outcome' = NoError
  /\ UNCHANGED <<elevation_symbol, instances, grids>>

\* The text of an input box is the sequence of its characters
Digits == <<"0", "1", "2", "3", "4", "5", "6", "7", "8", "9">>

\* int(text) on a text of decimal digits; raised stands for ValueError
RECURSIVE ParseDigits(_, _, _)
ParseDigits(text, k, acc) ==
  IF k > Len(text) THEN [raised |-> FALSE, value |-> acc]
  ELSE IF \E d \in 1..Len(Digits) : Digits[d] = text[k]
       THEN ParseDigits(text, k + 1,
                        10 * acc + (CHOOSE d \in 1..Len(Digits) : Digits[d] = text[k]) - 1)
       ELSE [raised |-> TRUE, value |-> 0]

ParseInt(text) ==
  IF text = <<>> THEN [raised |-> TRUE, value |-> 0] ELSE ParseDigits(text, 1, 0)

\* The seven int(...) arguments of the call, evaluated left to right
IntArgs(texts) == [k \in 1..Len(texts) |-> ParseInt(texts[k])]

\* The argument whose evaluation raises; Len(args) + 1 when none does
FirstRaised(args) ==
  IF \E k \in 1..Len(args) : args[k].raised
  THEN CHOOSE k \in 1..Len(args) :
         args[k].raised /\ \A n \in 1..(k - 1) : ~args[n].raised
  ELSE Len(args) + 1

\* A frame in which each attribute is assigned as soon as its text is
\* parsed, up to the text that raises
MainUpdateFieldByField(texts) ==
  LET args == IntArgs(texts)
      first == FirstRaised(args)
      new(k, current) == IF k < first THEN args[k].value ELSE current
  IN /\ Running
     /\ terrain_width' = new(1, terrain_width)
     /\ terrain_height' = new(2, terrain_height)
     /\ tile_width' = new(3, tile_width)
     /\ tile_height' = new(4, tile_height)
     /\ tile_thickness' = new(5, tile_thickness)
     /\ elevation' = new(6, elevation)
     /\ elevation_iterations' = new(7, elevation_iterations)
     /\ lastOp' = IF first <= Len(args) THEN "main" ELSE "update_terrain_info"
     /\ outcome' = NoError
     /\ call' = IF first <= Len(args)
                THEN [NoCall EXCEPT !.fn = "int", !.number = first,
                                    !.neighbors = texts[first]]
                ELSE call
     /\ UNCHANGED <<elevation_symbol, instances, grids, tile_checkboxes>>

\* main.py, "Update terrain information": the arguments are evaluated before
\* the call; a ValueError of int() is caught and the frame goes on.  call
\* keeps the text that raised and its place among the seven.
main_update_terrain_info(texts) ==
  LET args == IntArgs(texts)
      first == FirstRaised(args)
  IN IF first <= Len(args)
     THEN /\ Running
          /\ lastOp' = "main"
          /\ outcome' = NoError
          /\ call' = [NoCall EXCEPT !.fn = "int", !.number = first,
                                    !.neighbors = texts[first]]
          /\ UNCHANGED <<config, elevation_symbol, instances, grids, tile_checkboxes>>
     ELSE update_terrain_info(args[1].value, args[2].value, args[3].value,
                              args[4].value, args[5].value, args[6].value,
                              args[7].value)

\* main.py: terrain.elevation_symbol = key, for the checked checkbox
set_elevation_symbol(key) ==
  /\ Running
  /\ UNCHANGED <<call, tile_checkboxes>>
  /\ elevation_symbol' = key
  /\ lastOp' = "set_elevation_symbol"
  /\ outcome' = NoError
  /\ UNCHANGED <<config, instances, grids>>

\* generate_base_layer without its fallback: the cell keeps what _assign_tile gave
AssignCellNoFallback(number, tile_probabilities) ==
  LET t == _assign_tile(number, _accumulate_probabilities(tile_probabilities))
  IN IF t = None THEN EMPTY ELSE t

\* The value generate_base_layer stores in a cell whose seed is number
AssignCell(number, tile_probabilities) ==
  LET t == _assign_tile(number, _accumulate_probabilities(tile_probabilities))
  IN IF t = None THEN most_probable_tile_type(tile_probabilities) ELSE t

BaseLayerOf(tile_probabilities, seed) ==
  [shape |-> <<terrain_width, terrain_height>>,
   cells |-> [c \in Cells(terrain_width, terrain_height) |->
               AssignCell(seed[c], tile_probabilities)]]

generate_base_layer(tile_probabilities, seed) ==
  /\ Running
  /\ UNCHANGED <<call, tile_checkboxes>>
  /\ IF terrain_height < 0 \/ terrain_width < 0
     THEN Return("generate_base_layer")
     ELSE LET layer == BaseLayerOf(tile_probabilities, seed) IN
          /\ base_layer' = layer
          /\ terrain' = <<layer>>
          /\ CallGenerateTiles(<<layer>>)
          /\ lastOp' = "generate_base_layer"
          /\ UNCHANGED <<config, elevation_symbol, heightmap>>

\* A smoothing that rewrites layer 0 and keeps the layers above it
SmoothKeepingLayers ==
  /\ Running
  /\ UNCHANGED <<call, tile_checkboxes>>
  /\ IF tiles = <<>> \/ terrain_width = 1 \/ terrain_height = 1
     THEN Return("smooth_base_layer")
     ELSE \E r \in SmoothOutcomes(base_layer, DOMAIN base_layer.cells) :
          /\ base_layer' = r.value
          /\ lastOp' = "smooth_base_layer"
          /\ UNCHANGED <<config, elevation_symbol, heightmap>>
          /\ terrain' = [terrain EXCEPT ![1] = r.value]
          /\ IF r.raised
             THEN /\ outcome' = "IndexError"
                  /\ UNCHANGED instances
             ELSE CallGenerateTiles([terrain EXCEPT ![1] = r.value])

smooth_base_layer ==
  /\ Running
  /\ UNCHANGED <<call, tile_checkboxes>>
  /\ IF tiles = <<>> \/ terrain_width = 1 \/ terrain_height = 1
     THEN Return("smooth_base_layer")
     ELSE \E r \in SmoothOutcomes(base_layer, DOMAIN base_layer.cells) :
          /\ base_layer' = r.value
          /\ lastOp' = "smooth_base_layer"
          /\ UNCHANGED <<config, elevation_symbol, heightmap>>
          /\ IF r.raised
             THEN /\ terrain' = [terrain EXCEPT ![1] = r.value]
                  /\ outcome' = "IndexError"
                  /\ UNCHANGED instances
             ELSE /\ terrain' = <<r.value>>
                  /\ CallGenerateTiles(<<r.value>>)

generate_elevation ==
  /\ Running
  /\ UNCHANGED <<call, tile_checkboxes>>
  /\ IF \/ tiles = <<>>
        \/ elevation_symbol = None
        \/ terrain_width = 1 \/ terrain_height = 1
        \/ elevation <= 0 \/ elevation_iterations < 0
     THEN Return("generate_elevation")
     ELSE LET tiles1 == RemoveElevatedFrom(tiles, 1)
              terrain1 == <<terrain[1]>>
              hm == _generate_heightmap(base_layer, elevation_symbol,
                                        elevation, elevation_iterations)
              E == ArrayMax(hm.value)
              b == BuildLayers(hm.value, E, terrain_width, terrain_height,
                               elevation_symbol, 0, <<>>)
          IN /\ lastOp' = "generate_elevation"
             /\ UNCHANGED <<terrain_width, terrain_height, tile_width, tile_height,
                            tile_thickness, elevation_iterations, elevation_symbol,
                            base_layer>>
             /\ IF hm.raised \/ DOMAIN base_layer.cells = {}
                THEN /\ outcome' = IF hm.raised THEN "IndexError" ELSE "ValueError"
                     /\ heightmap' = IF hm.raised THEN heightmap ELSE hm.value
                     /\ terrain' = terrain1
                     /\ tiles' = tiles1
                     /\ attr' = Collect(attr, tiles1, selected_tiles, pointed_tile)
                     /\ UNCHANGED <<elevation, selected_tiles, pointed_tile>>
                ELSE /\ heightmap' = hm.value
                     /\ elevation' = E
                     /\ terrain' = terrain1 \o b.layers
                     /\ IF b.raised # NoError
                        THEN /\ outcome' = b.raised
                             /\ tiles' = tiles1
                             /\ attr' = Collect(attr, tiles1, selected_tiles, pointed_tile)
                             /\ UNCHANGED <<selected_tiles, pointed_tile>>
                        ELSE CallGenerateTiles(terrain1 \o b.layers)

update_pointed_tile(hits) ==
  /\ Running
  /\ UNCHANGED <<call, tile_checkboxes>>
  /\ pointed_tile' = PointedFrom(tiles, hits, 1, NoTile, -1)
  /\ attr' = Collect(attr, tiles, selected_tiles, pointed_tile')
  /\ lastOp' = "update_pointed_tile"
  /\ outcome' = NoError
  /\ UNCHANGED <<config, elevation_symbol, tiles, selected_tiles, grids>>

\* A write of the flag that stores True whatever it is given
SetFlagAlwaysTrue(at, ts, flag) ==
  [t \in DOMAIN at |-> IF t \in ts THEN [at[t] EXCEPT !.selected_tile = TRUE] ELSE at[t]]

SetFlag(at, ts, flag) == [t \in DOMAIN at |-> IF t \in ts THEN [at[t] EXCEPT !.selected_tile = flag] ELSE at[t]]

update_selected_tiles(control_pressed, left_mouse_pressed) ==
  /\ Running
  /\ UNCHANGED <<call, tile_checkboxes>>
  /\ lastOp' = "update_selected_tiles"
  /\ outcome' = NoError
  /\ UNCHANGED <<config, elevation_symbol, tiles, pointed_tile, grids>>
  /\ IF tiles # <<>> /\ pointed_tile # NoTile /\ left_mouse_pressed
     THEN IF control_pressed
          THEN IF pointed_tile \in Range(selected_tiles)
               THEN /\ selected_tiles' = ListRemove(selected_tiles, pointed_tile)
                    /\ attr' = SetFlag(attr, {pointed_tile}, FALSE)
               ELSE UNCHANGED <<selected_tiles, attr>>
          ELSE /\ Len(selected_tiles) < MaxSel
               /\ selected_tiles' = Append(selected_tiles, pointed_tile)
               /\ attr' = SetFlag(attr, {pointed_tile}, TRUE)
     ELSE IF tiles # <<>> /\ pointed_tile = NoTile /\ left_mouse_pressed /\ control_pressed
          THEN /\ selected_tiles' = <<>>
               /\ attr' = Collect(SetFlag(attr, Range(selected_tiles), FALSE),
                                  tiles, <<>>, pointed_tile)
          ELSE UNCHANGED <<selected_tiles, attr>>

\* Layer 0 of the stack and self.base_layer are one array
BaseOf(terr) == IF terr = <<>> THEN base_layer ELSE terr[1]

change_selected_tile_type(tile_type) ==
  /\ Running
  /\ UNCHANGED <<call, tile_checkboxes>>
  /\ lastOp' = "change_selected_tile_type"
  /\ UNCHANGED <<config, elevation_symbol, tiles, pointed_tile, heightmap>>
  /\ IF selected_tiles = <<>>
     THEN /\ outcome' = NoError
          /\ UNCHANGED <<selected_tiles, attr, base_layer, terrain>>
     ELSE LET r == RetypeFrom(selected_tiles, attr, terrain, tile_type, 1) IN
          /\ terrain' = r.terrain
          /\ base_layer' = BaseOf(r.terrain)
          /\ outcome' = IF r.raised THEN "IndexError" ELSE NoError
          /\ selected_tiles' = IF r.raised THEN selected_tiles ELSE <<>>
          /\ attr' = Collect(r.attr, tiles, selected_tiles', pointed_tile)

\* is_delete: event.type == KEYDOWN and event.key == K_DELETE
delete_tiles(is_delete) ==
  /\ Running
  /\ UNCHANGED <<call, tile_checkboxes>>
  /\ lastOp' = "delete_tiles"
  /\ UNCHANGED <<config, elevation_symbol, pointed_tile, heightmap>>
  /\ IF ~is_delete
     THEN /\ outcome' = NoError
          /\ UNCHANGED <<tiles, selected_tiles, attr, base_layer, terrain>>
     ELSE LET r == DeleteFrom(selected_tiles, tiles, terrain, 1) IN
          /\ tiles' = r.tiles
          /\ selected_tiles' = r.selected_tiles
          /\ terrain' = r.terrain
          /\ base_layer' = BaseOf(r.terrain)
          /\ outcome' = IF r.raised THEN "IndexError" ELSE NoError
          /\ attr' = Collect(attr, r.tiles, r.selected_tiles, pointed_tile)

----------------------------------------------------------------------------
(* Inputs *)

\* The terrain sizes typed into the input boxes: full size, a side of 1, a
\* side of 0
DimChoices == {<<MaxDim, MaxDim>>, <<1, MaxDim>>, <<0, MaxDim>>}

\* The elevation and iteration counts typed into the input boxes
ElevChoices == {<<MaxElev, 0>>, <<MaxElev, MaxIter>>}

\* Weight mappings over tile_types: split between the two, which gives
\* every base layer, and summing to less than 1, which takes the fallback
\* of generate_base_layer on the last draw
SplitProbs == <<1, ProbScale - 1>>
ShortProbs == <<0, 1>>

\* Every weight 0: the boxes hold "0", or texts float() rejects
\* (update_tile_probability stores 0 for those)
ZeroProbs == [k \in 1..Len(tile_types) |-> 0]

\* The cells the pointer is moved over: those of the diagonal
PointCells == {<<k, k>> : k \in 0..(MaxDim - 1)}

\* The sets of tiles one pointer position can hit (is_hovering true)
HitSets == {hs \in SUBSET {t \in Range(tiles) : t.index \in PointCells} :
              Cardinality(hs) <= MaxHits}

Configure(dims, elevs) ==
  \E d \in dims, e \in elevs :
    update_terrain_info(d[1], d[2], tile_width, tile_height, tile_thickness, e[1], e[2])

ChooseSymbol(keys) == \E key \in keys : set_elevation_symbol(key)

GenerateBase(probs, draws) ==
  \E tile_probabilities \in probs :
    \E seed \in [Cells(terrain_width, terrain_height) -> draws] :
      generate_base_layer(tile_probabilities, seed)

Point == \E hits \in HitSets : update_pointed_tile(hits)

\* The pointer moved over the given cells only
PointOver(cells) ==
  \E hits \in {hs \in HitSets : \A t \in hs : t.index \in cells} :
    update_pointed_tile(hits)

Select == \E control_pressed \in BOOLEAN, left_mouse_pressed \in BOOLEAN :
            update_selected_tiles(control_pressed, left_mouse_pressed)

Retype(types) == \E tile_type \in types : change_selected_tile_type(tile_type)

Delete == \E is_delete \in BOOLEAN : delete_tiles(is_delete)

----------------------------------------------------------------------------
(* Specifications *)

\* Pointing, selecting and deleting on a terrain of one size, of
\* type "1", with one level of elevation, rebuilt at any time
Next ==
  \/ Configure({<<MaxDim, MaxDim>>}, {<<1, 0>>})
  \/ ChooseSymbol({tile_types[1]})
  \/ GenerateBase({<<ProbScale, 0>>}, {0})
  \/ generate_elevation
  \/ Point
  \/ Select
  \/ Delete

Spec == Init /\ [][Next]_vars

\* Pointing at one column of the terrain, selecting, retyping and deleting,
\* with the terrain rebuilt at any time, also with no column at all
NextEdit ==
  \/ Configure({<<MaxDim, MaxDim>>, <<0, MaxDim>>}, {<<1, 0>>})
  \/ ChooseSymbol({tile_types[1]})
  \/ GenerateBase({<<ProbScale, 0>>}, {0})
  \/ generate_elevation
  \/ PointOver({<<0, 0>>})
  \/ Select
  \/ Retype({tile_types[2]})
  \/ Delete

SpecEdit == Init /\ [][NextEdit]_vars

\* The same on a terrain of one size raised by two levels, so that a column
\* has an instance between two others
NextColumn ==
  \/ Configure({<<MaxDim, MaxDim>>}, {<<2, 0>>})
  \/ ChooseSymbol({tile_types[1]})
  \/ GenerateBase({<<ProbScale, 0>>}, {0})
  \/ generate_elevation
  \/ PointOver({<<0, 0>>})
  \/ Select
  \/ Retype({tile_types[2]})
  \/ Delete

SpecColumn == Init /\ [][NextColumn]_vars

\* The generation operations, with the sizes and elevations changing
NextGen ==
  \/ Configure(DimChoices, ElevChoices)
  \/ ChooseSymbol({tile_types[1]})
  \/ GenerateBase({SplitProbs}, Draws)
  \/ GenerateBase({ShortProbs}, {ProbScale - 1})
  \/ GenerateBase({ZeroProbs}, {0})
  \/ smooth_base_layer
  \/ generate_elevation

SpecGen == Init /\ [][NextGen]_vars

\* _generate_heightmap alone, on every base layer of the shapes HmShapes: the
\* state is the one generate_base_layer leaves, and HeightmapCall stores what
\* the function returns for the Terrain's own arguments
HmShapes == {<<2, 2>>, <<2, 3>>, <<3, 3>>}

InitHeightmap ==
  \E shape \in HmShapes :
    \E layer \in [Cells(shape[1], shape[2]) -> TypeSet] :
      \E e \in 1..MaxElev, it \in 0..MaxIter :
        LET a == [shape |-> shape, cells |-> layer]
            g == generate_tiles(<<a>>, shape[1], shape[2])
        IN /\ terrain_width = shape[1]
           /\ terrain_height = shape[2]
           /\ tile_width = InitTileWidth
           /\ tile_height = InitTileHeight
           /\ tile_thickness = InitTileThickness
           /\ elevation_symbol = tile_types[1]
           /\ elevation = e
           /\ elevation_iterations = it
           /\ tiles = g.tiles
           /\ selected_tiles = <<>>
           /\ pointed_tile = NoTile
           /\ attr = [t \in Range(g.tiles) |->
                       [tile_type |-> layer[t.index], selected_tile |-> FALSE]]
           /\ base_layer = a
           /\ heightmap = NoArray
           /\ terrain = <<a>>
           /\ lastOp = "generate_base_layer"
           /\ outcome = NoError
           /\ call = NoCall
           /\ tile_checkboxes = check(Unchecked, tile_types[1])

HeightmapCall ==
  /\ lastOp = "generate_base_layer"
  /\ heightmap' = _generate_heightmap(base_layer, elevation_symbol,
                                      elevation, elevation_iterations).value
  /\ lastOp' = "_generate_heightmap"
  /\ UNCHANGED <<config, elevation_symbol, instances, base_layer, terrain, outcome, call,
               tile_checkboxes>>

SpecHeightmap == InitHeightmap /\ [][HeightmapCall]_vars

\* The helper functions called on their own, on the mappings, draws,
\* neighbor lists and coin flips below; call records the arguments and
\* what the function returned
\* Weights and draws of the calls are counted in units of 1/WeightScale
WeightScale == 4

WeightMaps == [1..Len(tile_types) -> 0..WeightScale]

WeightDraws == 0..(WeightScale - 1)

NeighborLists == UNION {[1..n -> TypeSet] : n \in {3, 5, 8}}

terrainState == <<config, elevation_symbol, instances, grids, lastOp, outcome,
                  tile_checkboxes>>

AssignTileCall ==
  \E probabilities \in WeightMaps, number \in WeightDraws :
    /\ call' = [NoCall EXCEPT !.fn = "_assign_tile",
                              !.probabilities = probabilities,
                              !.number = number,
                              !.result = _assign_tile(number,
                                           _accumulate_probabilities(probabilities))]
    /\ UNCHANGED terrainState

AssignCellCall ==
  \E probabilities \in WeightMaps, number \in WeightDraws :
    /\ call' = [NoCall EXCEPT !.fn = "generate_base_layer",
                              !.probabilities = probabilities,
                              !.number = number,
                              !.result = AssignCell(number, probabilities)]
    /\ UNCHANGED terrainState

SetToNeighborTypeCall ==
  \E neighbors \in NeighborLists, coins \in CoinSeqs :
    /\ call' = [NoCall EXCEPT !.fn = "_set_to_neighbor_type",
                              !.neighbors = neighbors,
                              !.coins = coins,
                              !.result = _set_to_neighbor_type(neighbors, tile_types, coins)]
    /\ UNCHANGED terrainState

\* Arrays of at least two rows and two columns whose cells hold their own
\* index, so that a returned value tells which cell was read
GridShapes == (2..MaxGrid) \X (2..MaxGrid)

Labelled(shape) ==
  [shape |-> shape, cells |-> [c \in Cells(shape[1], shape[2]) |-> c]]

NeighborTilesCall ==
  \E shape \in GridShapes :
    \E position \in Cells(shape[1], shape[2]) :
      /\ call' = [NoCall EXCEPT !.fn = "_get_neighbor_tiles",
                                !.shape = shape,
                                !.position = position,
                                !.result = _get_neighbor_tiles(Labelled(shape), position)]
      /\ UNCHANGED terrainState

\* j * tile.width / 2 and k * tile.height, in quarters; the two negative
\* values stand for coordinates left of and above the origin
CartInputs == {2 * n : n \in (0 - 2)..MaxCoord}

CartToIsoCall ==
  \E x \in CartInputs, y \in CartInputs :
    /\ call' = [NoCall EXCEPT !.fn = "_cart_to_iso",
                              !.position = <<x, y>>,
                              !.result = _cart_to_iso(x, y)]
    /\ UNCHANGED terrainState

\* What the seven input boxes may hold when a frame reads them: a number,
\* or a text int() rejects (InputBox.handle_event appends any typed
\* character and deletes down to the empty text).  The four size boxes take
\* either of two numbers.
AllGoodTexts == {<<"1", "2">>, <<"3">>}

GoodTexts(k) == IF k <= 4 THEN AllGoodTexts ELSE {<<"1", "2">>}

BadText(k) == IF k % 2 = 0 THEN <<>> ELSE <<"1", "x">>

FrameTexts ==
  {texts \in [1..7 -> AllGoodTexts \cup {<<>>, <<"1", "x">>}] :
     \A k \in 1..7 : texts[k] \in GoodTexts(k) \cup {BadText(k)}}

NextMain == \E texts \in FrameTexts : main_update_terrain_info(texts)

SpecMain == Init /\ [][NextMain]_vars

----------------------------------------------------------------------------
(* The elevation check boxes of TileInformation *)

EventTypes == {"MOUSEBUTTONDOWN", "MOUSEBUTTONUP", "KEYDOWN"}

Events == [type : EventTypes, button : {1, 3}, hits : SUBSET Range(tile_types)]

\* CheckBox.on_click: the value it returns; when it is TRUE the box was
\* checked by the call
on_click(event, k) ==
  /\ event.type = "MOUSEBUTTONDOWN"
  /\ event.button = 1
  /\ k \in event.hits

\* The inner loop: every check box other than k is unchecked
RECURSIVE UncheckOthers(_, _, _)
UncheckOthers(boxes, k, j) ==
  IF j > Len(tile_types) THEN boxes
  ELSE UncheckOthers(IF tile_types[j] # k THEN uncheck(boxes, tile_types[j]) ELSE boxes,
                     k, j + 1)

\* The outer loop from the i-th check box on, in the order of the dictionary
RECURSIVE HandleCheckboxes(_, _, _)
HandleCheckboxes(boxes, event, i) ==
  IF i > Len(tile_types) THEN boxes
  ELSE LET k == tile_types[i]
       IN IF on_click(event, k)
          THEN HandleCheckboxes(UncheckOthers(check(boxes, k), k, 1), event, i + 1)
          ELSE HandleCheckboxes(boxes, event, i + 1)

handle_checkbox_events(event) ==
  /\ Running
  /\ tile_checkboxes' = HandleCheckboxes(tile_checkboxes, event, 1)
  /\ call' = [NoCall EXCEPT !.fn = "handle_checkbox_events", !.event = event]
  /\ lastOp' = "handle_checkbox_events"
  /\ outcome' = NoError
  /\ UNCHANGED <<config, elevation_symbol, instances, grids>>

\* main.py at the end of a frame: the key of the last checked box, if any,
\* becomes the elevation symbol
RECURSIVE CheckedKey(_, _, _)
CheckedKey(boxes, symbol, i) ==
  IF i > Len(tile_types) THEN symbol
  ELSE CheckedKey(boxes, IF boxes[tile_types[i]] THEN tile_types[i] ELSE symbol, i + 1)

UpdateElevationTile ==
  set_elevation_symbol(CheckedKey(tile_checkboxes, elevation_symbol, 1))

\* The check boxes a run may start from: none checked (the constructor) or
\* one checked (main.py checks "1")
StartBoxes == {Unchecked} \cup {check(Unchecked, k) : k \in Range(tile_types)}

InitCheckbox ==
  /\ terrain_width = InitDim
  /\ terrain_height = InitDim
  /\ tile_width = InitTileWidth
  /\ tile_height = InitTileHeight
  /\ tile_thickness = InitTileThickness
  /\ elevation_symbol = None
  /\ elevation = 1
  /\ elevation_iterations = 1
  /\ tiles = <<>>
  /\ selected_tiles = <<>>
  /\ pointed_tile = NoTile
  /\ attr = <<>>
  /\ base_layer = np_full(InitDim, InitDim, EMPTY)
  /\ heightmap = NoArray
  /\ terrain = <<>>
  /\ lastOp = "__init__"
  /\ outcome = NoError
  /\ call = NoCall
  /\ tile_checkboxes \in StartBoxes

NextCheckbox ==
  \/ \E event \in Events : handle_checkbox_events(event)
  \/ UpdateElevationTile

SpecCheckbox == InitCheckbox /\ [][NextCheckbox]_vars

NextHelpers ==
  \/ AssignTileCall
  \/ AssignCellCall
  \/ SetToNeighborTypeCall
  \/ NeighborTilesCall
  \/ CartToIsoCall

SpecHelpers == Init /\ [][NextHelpers]_vars

----------------------------------------------------------------------------
(* Properties *)

HasCells(a) == DOMAIN a.cells # {}

RebuildOps == {"generate_base_layer", "smooth_base_layer", "generate_elevation"}

\* The tile list and the stack agree: one instance per non-EMPTY cell, of
\* the cell's type, and no other instance
TilesMatchStack ==
  /\ \A i \in 1..Len(terrain) : \A c \in DOMAIN terrain[i].cells :
       terrain[i].cells[c] # EMPTY =>
         Cardinality({n \in 1..Len(tiles) :
                        /\ tiles[n].elevation = i
                        /\ tiles[n].index = c
                        /\ attr[tiles[n]].tile_type = terrain[i].cells[c]}) = 1
  /\ \A n \in 1..Len(tiles) :
       /\ Writable(terrain, tiles[n])
       /\ terrain[tiles[n].elevation].cells[tiles[n].index] # EMPTY
       /\ \A m \in 1..Len(tiles) : tiles[m] = tiles[n] => m = n

BaseTiles(list) == SelectSeq(list, LAMBDA t : t.elevation = 1)

\* Cell c is occupied at stack level L (the grid at position L of the stack,
\* position 0 being the base layer)
OccupiedAt(c, L) ==
  /\ L + 1 <= Len(terrain)
  /\ c \in DOMAIN terrain[L + 1].cells
  /\ terrain[L + 1].cells[c] # EMPTY

\* C1: after delete_tiles handles a Delete key-down, every instance that was
\* selected and has elevation > 1 is gone from the tile list, its grid cell
\* is EMPTY and it is no longer in the selection list.
C1_DeleteRemovesEverySelected ==
  [][delete_tiles(TRUE) =>
       \A t \in Range(selected_tiles) : t.elevation > 1 =>
         /\ t \notin Range(tiles')
         /\ Writable(terrain', t)
         /\ terrain'[t.elevation].cells[t.index] = EMPTY
         /\ t \notin Range(selected_tiles')]_vars

\* C2: delete_tiles never removes an elevation-1 instance and never changes
\* a cell of layer 0, whatever the selection and the event.
C2_DeleteKeepsBaseLayer ==
  [][Delete =>
       /\ BaseTiles(tiles') = BaseTiles(tiles)
       /\ base_layer' = base_layer
       /\ terrain # <<>> => (terrain' # <<>> /\ terrain'[1] = terrain[1])]_vars

\* C2 witness: a Delete was handled with a base-layer instance selected next
\* to an elevated one, which it removed
C2_Witness ==
  /\ lastOp = "delete_tiles"
  /\ outcome = NoError
  /\ \E t \in Range(selected_tiles) : t.elevation = 1 /\ t \in Range(tiles)
  /\ Len(terrain) > 1
  /\ \E c \in DOMAIN terrain[2].cells : terrain[2].cells[c] = EMPTY /\ heightmap.cells[c] >= 1

\* C3: every member of the selection list is a member of the tile list.
C3_SelectionWithinTiles == Range(selected_tiles) \subseteq Range(tiles)

\* C4: after generate_tiles the selection list is empty and the tile list is
\* in one-to-one correspondence with the non-EMPTY cells of the stack.
C4_TilesMatchStackAfterRebuild ==
  (lastOp \in RebuildOps /\ outcome = NoError) =>
    (selected_tiles = <<>> /\ TilesMatchStack)

\* C5: all grids of the terrain stack have the shape of layer 0.
C5_LayersShareShape ==
  \A i \in 1..Len(terrain) : terrain[i].shape = terrain[1].shape

\* C6: a call of generate_base_layer, smooth_base_layer or generate_elevation
\* either completes with the instance list consistent with the stack, or
\* leaves base layer, stack, heightmap, instances and selection unchanged.
C6_AllOrNothing ==
  [][lastOp' \in RebuildOps =>
       \/ outcome' = NoError /\ TilesMatchStack'
       \/ UNCHANGED <<base_layer, terrain, heightmap, tiles, selected_tiles>>]_vars

\* C7: after generate_elevation a cell of final height h is non-EMPTY in
\* exactly the stack levels 1..h and EMPTY in the levels h+1..E.
C7_ColumnsFollowHeight ==
  (lastOp = "generate_elevation" /\ outcome = NoError) =>
    \A c \in DOMAIN heightmap.cells : \A L \in 1..elevation :
      OccupiedAt(c, L) <=> L <= heightmap.cells[c]

\* C8 as stated: the grid at stack position i, for i in 1..E, holds the
\* marker exactly on the cells with heightmap[cell] > i.
C8_MarkerWhereAboveLevel ==
  (lastOp = "generate_elevation" /\ outcome = NoError) =>
    \A i \in 1..(Len(terrain) - 1) : \A c \in DOMAIN terrain[i + 1].cells :
      terrain[i + 1].cells[c] =
        (IF heightmap.cells[c] > i THEN elevation_symbol ELSE EMPTY)

\* C8 amended: the grid at stack position i >= 1 holds the marker exactly on
\* the cells with heightmap[cell] >= i, and EMPTY on the others.
C8_MarkerWhereAtLeastLevel ==
  (lastOp = "generate_elevation" /\ outcome # Returned) =>
    \A i \in 1..(Len(terrain) - 1) : \A c \in DOMAIN terrain[i + 1].cells :
      /\ c \in DOMAIN heightmap.cells
      /\ terrain[i + 1].cells[c] =
           (IF heightmap.cells[c] >= i THEN elevation_symbol ELSE EMPTY)

\* C8 witness: two levels were built over cells of heights 0, 1 and 2
C8_Witness ==
  /\ lastOp = "generate_elevation"
  /\ outcome = NoError
  /\ Len(terrain) = 3
  /\ \A h \in 0..2 : \E c \in DOMAIN heightmap.cells : heightmap.cells[c] = h

\* C9: after a generate_elevation call that passes its preconditions, the
\* stored elevation is the maximum of the final heightmap, at most the
\* requested elevation, and the stack has 1 + maximum grids.
C9_ElevationIsObservedMaximum ==
  [][(lastOp' = "generate_elevation" /\ outcome' # Returned) =>
       /\ heightmap'.shape = base_layer.shape
       /\ HasCells(heightmap')
       /\ elevation' = ArrayMax(heightmap')
       /\ elevation' <= elevation
       /\ Len(terrain') = 1 + elevation']_vars

\* C10: the heightmap _generate_heightmap returns is zero on every cell whose
\* base-layer type is not the marker, and so is the float grid before
\* truncation: diffusion never makes a zero cell nonzero.
C10_UnseededCellsStayZero ==
  lastOp = "_generate_heightmap" =>
    \A c \in DOMAIN base_layer.cells :
      base_layer.cells[c] # elevation_symbol =>
        /\ heightmap.cells[c] = 0
        /\ Diffuse([raised |-> FALSE,
                    value |-> SeedHeightmap(base_layer, elevation_symbol, elevation)],
                   elevation_iterations).value.cells[c][1] = 0

\* C10 witness: an interior cell was not seeded, all its neighbors were, and
\* the heightmap was diffused and is still nonzero
C10_Witness ==
  /\ lastOp = "_generate_heightmap"
  /\ elevation_iterations >= 1
  /\ base_layer.shape = <<3, 3>>
  /\ base_layer.cells[<<1, 1>>] # elevation_symbol
  /\ \A c \in DOMAIN base_layer.cells : c # <<1, 1>> =>
       (base_layer.cells[c] = elevation_symbol /\ heightmap.cells[c] >= 1)

\* C11: with iterations = 0 the heightmap _generate_heightmap returns is the
\* requested elevation on every cell of the marker type and 0 on every other.
C11_SeedOnlyWithoutIterations ==
  (lastOp = "_generate_heightmap" /\ elevation_iterations = 0) =>
    /\ heightmap.shape = base_layer.shape
    /\ \A c \in DOMAIN base_layer.cells :
         heightmap.cells[c] =
           (IF base_layer.cells[c] = elevation_symbol THEN elevation ELSE 0)

\* C11 witness: one interior cell seeded, no iteration, that cell at the
\* greatest elevation tried
C11_Witness ==
  /\ lastOp = "_generate_heightmap"
  /\ elevation_iterations = 0
  /\ elevation = MaxElev
  /\ base_layer.shape = <<3, 3>>
  /\ \A c \in DOMAIN base_layer.cells : (base_layer.cells[c] = elevation_symbol) <=> (c = <<1, 1>>)
  /\ heightmap.cells[<<1, 1>>] = MaxElev

\* C16: _set_to_neighbor_type returns a type of tile_types whose count among
\* the neighbors is maximal, so one that occurs among the neighbors.
C16_WinnerHasMaximalCount ==
  call.fn = "_set_to_neighbor_type" =>
    /\ call.result \in TypeSet
    /\ \A t \in TypeSet : CountOf(call.neighbors, t) <= CountOf(call.neighbors, call.result)
    /\ CountOf(call.neighbors, call.result) >= 1

\* C16 witness: eight neighbors split four to four, and the coin gave the
\* second type
C16_Witness ==
  /\ call.fn = "_set_to_neighbor_type"
  /\ Len(call.neighbors) = 8
  /\ CountOf(call.neighbors, tile_types[1]) = 4
  /\ CountOf(call.neighbors, tile_types[2]) = 4
  /\ call.result = tile_types[2]

CumulativeSum(probabilities, k) == _accumulate_probabilities(SubSeq(probabilities, 1, k))[k]

\* C19: _assign_tile on _accumulate_probabilities returns type k exactly when
\* c_(k-1) <= draw < c_k, the first k with draw < c_k; no type when the draw
\* is below no sum; never a type of weight 0.
C19_FirstSumAboveDraw ==
  call.fn = "_assign_tile" =>
    /\ \A k \in 1..Len(tile_types) :
         (call.result = tile_types[k]) <=>
           /\ call.number < CumulativeSum(call.probabilities, k)
           /\ \A m \in 1..(k - 1) : CumulativeSum(call.probabilities, m) <= call.number
    /\ \A k \in 1..Len(tile_types) :
         call.probabilities[k] = 0 => call.result # tile_types[k]
    /\ (call.result = None) <=>
         \A k \in 1..Len(tile_types) : CumulativeSum(call.probabilities, k) <= call.number

\* C19 witness: the draw is past the first sum and below the second, the
\* second type is returned
C19_Witness ==
  /\ call.fn = "_assign_tile"
  /\ call.probabilities[1] > 0
  /\ call.probabilities[1] <= call.number
  /\ call.number < call.probabilities[1] + call.probabilities[2]
  /\ call.result = tile_types[2]

\* C20: when the weights sum to less than 1 and the draw is not below the
\* last cumulative sum, the cell gets the type of the greatest weight, the
\* first of them in the mapping's order.
C20_FallbackFirstMaximum ==
  (/\ call.fn = "generate_base_layer"
   /\ CumulativeSum(call.probabilities, Len(tile_types)) < WeightScale
   /\ CumulativeSum(call.probabilities, Len(tile_types)) <= call.number) =>
    \E k \in 1..Len(tile_types) :
      /\ call.result = tile_types[k]
      /\ \A m \in 1..Len(tile_types) : call.probabilities[m] <= call.probabilities[k]
      /\ \A m \in 1..(k - 1) : call.probabilities[m] < call.probabilities[k]

\* C20 witness: the fallback was taken with the two weights tied above 0,
\* and gave the first type
C20_Witness ==
  /\ call.fn = "generate_base_layer"
  /\ call.probabilities[1] + call.probabilities[2] < WeightScale
  /\ call.probabilities[1] + call.probabilities[2] <= call.number
  /\ call.probabilities[1] = call.probabilities[2]
  /\ call.probabilities[1] > 0
  /\ call.result = tile_types[1]

\* Every cell of the grid holds the type t
AllOfType(a, t) == HasCells(a) /\ \A c \in DOMAIN a.cells : a.cells[c] = t

AtLeastTwoByTwo(a) == a.shape[1] >= 2 /\ a.shape[2] >= 2

\* C12: on a base layer of at least 2x2 whose every cell is the marker,
\* generate_elevation with elevation e > 0 and iterations >= 0, once past
\* its own checks, gives a heightmap of e everywhere, the elevation e, and
\* 1 + e grids whose elevation layers hold the marker on every cell.
C12_FullMarkerTerrainRisesWhole ==
  [][(/\ lastOp' = "generate_elevation"
      /\ outcome' # Returned
      /\ terrain # <<>>
      /\ elevation_symbol # None
      /\ AllOfType(base_layer, elevation_symbol)
      /\ AtLeastTwoByTwo(base_layer)
      /\ elevation > 0
      /\ elevation_iterations >= 0) =>
       /\ heightmap'.shape = base_layer.shape
       /\ AllOfType(heightmap', elevation)
       /\ elevation' = elevation
       /\ Len(terrain') = 1 + elevation
       /\ \A L \in 2..Len(terrain') : \A c \in DOMAIN base_layer.cells :
            /\ c \in DOMAIN terrain'[L].cells
            /\ terrain'[L].cells[c] = elevation_symbol]_vars

\* C13: generate_elevation returns leaving stack, heightmap, elevation,
\* instances and selection unchanged when there is no stack, no marker, a
\* grid dimension below 2, elevation <= 0 or iterations < 0.
C13_ElevationNoOpOutsidePreconditions ==
  [][(/\ lastOp' = "generate_elevation"
      /\ \/ terrain = <<>>
         \/ elevation_symbol = None
         \/ ~AtLeastTwoByTwo(base_layer)
         \/ elevation <= 0
         \/ elevation_iterations < 0) =>
       /\ outcome' \in {NoError, Returned}
       /\ UNCHANGED <<terrain, heightmap, elevation, tiles, selected_tiles>>]_vars

\* C14: smooth_base_layer returns leaving base layer, stack, instances and
\* selection unchanged when there is no stack or a grid dimension is below 2.
C14_SmoothNoOpOutsidePreconditions ==
  [][(/\ lastOp' = "smooth_base_layer"
      /\ \/ terrain = <<>>
         \/ ~AtLeastTwoByTwo(base_layer)) =>
       /\ outcome' \in {NoError, Returned}
       /\ UNCHANGED <<base_layer, terrain, tiles, selected_tiles>>]_vars

\* C15: when every cell of a base layer of at least 2x2 holds one type of
\* the universe, every cell holds it after smooth_base_layer, whatever the
\* shuffle and the coin flips.
C15_UniformGridStaysUniform ==
  [][(/\ lastOp' = "smooth_base_layer"
      /\ \E t \in TypeSet : AllOfType(base_layer, t)
      /\ AtLeastTwoByTwo(base_layer)) =>
       /\ base_layer' = base_layer
       /\ terrain' # <<>>
       /\ terrain'[1] = base_layer]_vars

\* C15 witness: smooth_base_layer ran to its end and left a 2x2 base layer
\* of the second type only
C15_Witness ==
  /\ lastOp = "smooth_base_layer"
  /\ outcome = NoError
  /\ base_layer.shape = <<MaxDim, MaxDim>>
  /\ AllOfType(base_layer, tile_types[2])
  /\ Len(tiles) = MaxDim * MaxDim

\* C17: generate_base_layer called with terrain_width <= 0 or
\* terrain_height <= 0 leaves base layer, stack, instances and selection
\* unchanged.
C17_BaseLayerNoOpOnEmptySize ==
  [][(/\ lastOp' = "generate_base_layer"
      /\ (terrain_width <= 0 \/ terrain_height <= 0)) =>
       UNCHANGED <<base_layer, terrain, tiles, selected_tiles>>]_vars

\* C18: after generate_base_layer succeeds the stack is one grid, the
\* terrain_width x terrain_height base layer, every cell a key of the
\* probability mapping, and the instances are one of elevation 1 per cell.
C18_BaseLayerReplacesStack ==
  (lastOp = "generate_base_layer" /\ outcome = NoError) =>
    /\ Len(terrain) = 1
    /\ terrain[1] = base_layer
    /\ base_layer.shape = <<terrain_width, terrain_height>>
    /\ DOMAIN base_layer.cells = Cells(terrain_width, terrain_height)
    /\ \A c \in DOMAIN base_layer.cells : base_layer.cells[c] \in TypeSet
    /\ Len(tiles) = Cardinality(DOMAIN base_layer.cells)
    /\ \A n \in 1..Len(tiles) : tiles[n].elevation = 1
    /\ TilesMatchStack

\* C18 witness: a full-size base layer was generated on a terrain that had
\* been given elevation layers of height 2 or more
C18_Witness ==
  /\ lastOp = "generate_base_layer"
  /\ outcome = NoError
  /\ HasCells(heightmap)
  /\ ArrayMax(heightmap) >= 2
  /\ Len(tiles) = MaxDim * MaxDim
  /\ Len(terrain) = 1

\* C21: generate_base_layer given a mapping whose weights are all 0 ends in
\* an error outcome and produces no base layer of tiles.
C21_DegenerateMappingIsAnError ==
  [][(/\ terrain_width > 0
       /\ terrain_height > 0
       /\ \E seed \in [Cells(terrain_width, terrain_height) -> {0}] :
            generate_base_layer(ZeroProbs, seed)) =>
       /\ outcome' \notin {NoError, Returned}
       /\ tiles' = <<>>]_vars

\* C30: whenever a heightmap exists it has the dimensions of the current
\* layer-0 grid and every entry is a non-negative integer.
C30_HeightmapFitsBaseLayer ==
  heightmap # NoArray =>
    /\ terrain # <<>>
    /\ heightmap.shape = terrain[1].shape
    /\ \A c \in DOMAIN heightmap.cells : heightmap.cells[c] \in Nat

\* The cells around a position that lie inside an array of the given shape
InBoundsNeighbors(shape, position) ==
  {c \in Cells(shape[1], shape[2]) :
     /\ c # position
     /\ Abs(c[1] - position[1]) <= 1
     /\ Abs(c[2] - position[2]) <= 1}

\* How many of its two coordinates put a position on the rim of the array
OnRim(shape, position) ==
  (IF position[1] \in {0, shape[1] - 1} THEN 1 ELSE 0)
  + (IF position[2] \in {0, shape[2] - 1} THEN 1 ELSE 0)

\* C22: on every grid of at least 2x2 and for every cell, _get_neighbor_tiles
\* returns exactly the values at the in-bounds 8-neighbors, each once (3 for
\* a corner, 5 for a border cell, 8 for an interior cell), and reads no index
\* that is out of range or wrapped.
C22_NeighborsAreTheInBoundsEight ==
  call.fn = "_get_neighbor_tiles" =>
    LET around == InBoundsNeighbors(call.shape, call.position)
        rim == OnRim(call.shape, call.position)
    IN /\ ~call.result.raised
       /\ Range(call.result.value) = around
       /\ Len(call.result.value) = Cardinality(around)
       /\ Len(call.result.value) = (IF rim = 2 THEN 3 ELSE IF rim = 1 THEN 5 ELSE 8)

C22_Witness ==
  /\ call.fn = "_get_neighbor_tiles"
  /\ call.shape = <<MaxGrid, MaxGrid>>
  /\ call.position = <<1, 1>>
  /\ Len(call.result.value) = 8

\* The inverse the specification gives: x = (2 * iso_y + iso_x) / 2,
\* y = (2 * iso_y - iso_x) / 2
IsoToCart(iso) ==
  <<FHalf(FAdd(2 * iso[2], iso[1])), FHalf(FSub(2 * iso[2], iso[1]))>>

\* x - y and x + y are floats themselves, so that nothing is rounded
ExactInput(x, y) == Abs(x) + Abs(y) < Pow2(MantissaBits)

IsNumeric(text) ==
  /\ text # <<>>
  /\ \A k \in 1..Len(text) : \E d \in 1..Len(Digits) : text[k] = Digits[d]

\* C29: in the per-frame configuration update, if one of the seven texts is
\* not numeric then none of the seven Terrain parameters changes and the
\* frame goes on without an error.
C29_BadTextChangesNoParameter ==
  [][(lastOp' = "main" /\ call'.fn = "int" /\ ~IsNumeric(call'.neighbors)) =>
       /\ UNCHANGED config
       /\ outcome' = NoError]_vars

C29_Witness ==
  /\ lastOp = "main"
  /\ call.fn = "int"
  /\ call.number = 7
  /\ call.neighbors = <<"1", "x">>
  /\ terrain_width = 12
  /\ elevation = 12

\* sum(tile.index) * tile.elevation
Score(t) == (t.index[1] + t.index[2]) * t.elevation

\* C24: after update_pointed_tile the pointed instance is None exactly when
\* no instance of the tile list is hit; otherwise it is a hit instance whose
\* score (row + column) * elevation is maximal among the hit instances.
C24_PointedIsBestHit ==
  [][\A hits \in HitSets :
       update_pointed_tile(hits) =>
         /\ (pointed_tile' = NoTile) <=> (hits = {})
         /\ hits # {} =>
              /\ pointed_tile' \in hits
              /\ \A t \in hits : Score(t) <= Score(pointed_tile')]_vars

C24_Witness ==
  /\ lastOp = "update_pointed_tile"
  /\ pointed_tile = [gen |-> 0, elevation |-> 2, index |-> <<1, 1>>]
  /\ [gen |-> 0, elevation |-> 1, index |-> <<1, 1>>] \in Range(tiles)

\* C25: after update_selected_tiles with the left button pressed, the
\* modifier held and an instance pointed, that instance is not in the
\* selection list, whatever selection updates came before, and no other
\* instance's membership has changed.
C25_ModifierClickUnselects ==
  [][(pointed_tile # NoTile /\ update_selected_tiles(TRUE, TRUE)) =>
       /\ pointed_tile \notin Range(selected_tiles')
       /\ Range(selected_tiles') \ {pointed_tile}
            = Range(selected_tiles) \ {pointed_tile}]_vars

\* C26: after update_selected_tiles with the left button pressed, the
\* modifier held, no instance pointed and a non-empty tile list, the
\* selection list is empty and every instance's selected flag is false.
C26_ModifierClickOutsideClears ==
  [][(pointed_tile = NoTile /\ tiles # <<>> /\ update_selected_tiles(TRUE, TRUE)) =>
       /\ selected_tiles' = <<>>
       /\ \A t \in Range(tiles') : ~attr'[t].selected_tile]_vars

C26_Witness ==
  /\ lastOp = "update_selected_tiles"
  /\ pointed_tile = NoTile
  /\ selected_tiles = <<>>
  /\ Len(tiles) > MaxDim * MaxDim

\* C27: after update_selected_tiles with the left button pressed, no
\* modifier and an instance pointed, that instance is in the selection list
\* with its flag true and every instance selected before still is; with the
\* left button not pressed the selection list is unchanged.
C27_ClickSelects ==
  [][/\ (pointed_tile # NoTile /\ update_selected_tiles(FALSE, TRUE)) =>
          /\ pointed_tile \in Range(selected_tiles')
          /\ attr'[pointed_tile].selected_tile
          /\ Range(selected_tiles) \subseteq Range(selected_tiles')
     /\ (\E control_pressed \in BOOLEAN : update_selected_tiles(control_pressed, FALSE)) =>
          UNCHANGED selected_tiles]_vars

\* C28: after change_selected_tile_type(t) with a non-empty selection, for
\* every instance selected before the cell terrain[elevation - 1][index] and
\* the instance's type are t, the selection list is empty and the flags are
\* false; the tile list and every other cell are unchanged.  With an empty
\* selection nothing changes.
C28_RetypeWritesSelection ==
  [][\A tile_type \in TypeSet :
       change_selected_tile_type(tile_type) =>
         IF selected_tiles = <<>>
         THEN UNCHANGED <<tiles, selected_tiles, attr, grids>>
         ELSE /\ outcome' = NoError
              /\ \A t \in Range(selected_tiles) :
                   /\ Writable(terrain', t)
                   /\ terrain'[t.elevation].cells[t.index] = tile_type
                   /\ t \in DOMAIN attr' =>
                        /\ attr'[t].tile_type = tile_type
                        /\ ~attr'[t].selected_tile
              /\ selected_tiles' = <<>>
              /\ tiles' = tiles
              /\ Len(terrain') = Len(terrain)
              /\ \A e \in 1..Len(terrain) :
                   /\ terrain'[e].shape = terrain[e].shape
                   /\ \A c \in DOMAIN terrain[e].cells :
                        (\A t \in Range(selected_tiles) : t.elevation # e \/ t.index # c)
                          => terrain'[e].cells[c] = terrain[e].cells[c]]_vars

\* C31: calling generate_elevation twice in succession, with no other
\* operation in between, leaves the same heightmap, stored elevation and
\* terrain stack as calling it once.
C31_ElevationTwiceAsOnce ==
  [][(lastOp = "generate_elevation" /\ outcome = NoError /\ generate_elevation) =>
       UNCHANGED <<heightmap, elevation, terrain>>]_vars

\* The orders in which the cells of a set can be visited, each cell once
VisitOrders(S) ==
  {order \in [1..Cardinality(S) -> S] :
     \A m, n \in 1..Cardinality(S) : order[m] = order[n] => m = n}

\* Where a cell stands in an order
PlaceIn(order, c) == CHOOSE n \in DOMAIN order : order[n] = c

\* The neighbor values a visit to c reads when the cells before it in the
\* order already hold their new value and the others their old one
SeenAt(old, new, order, c) ==
  LET pos == NeighborPositions(old.shape[1], old.shape[2], c[1], c[2])
  IN [n \in 1..Len(pos) |->
        IF PlaceIn(order, pos[n]) < PlaceIn(order, c)
        THEN new.cells[pos[n]] ELSE old.cells[pos[n]]]

\* One in-place pass over all the cells leads from old to new
InPlacePass(old, new) ==
  /\ new.shape = old.shape
  /\ old.shape[1] >= 2
  /\ old.shape[2] >= 2
  /\ \E order \in VisitOrders(DOMAIN old.cells) :
       \A c \in DOMAIN old.cells :
         new.cells[c] \in Winners(SeenAt(old, new, order, c))

\* C32: one invocation of smooth_base_layer visits every cell of the base
\* layer exactly once, in some order, and the value written to a cell comes
\* from the neighbor values the grid holds at that visit (cells rewritten
\* earlier in the pass are seen with their new value).
C32_OneInPlacePass ==
  [][(smooth_base_layer /\ outcome' # Returned) =>
       /\ outcome' = NoError
       /\ InPlacePass(base_layer, base_layer')]_vars

\* The float grid _generate_heightmap holds before np.trunc, for the state's
\* own arguments
Diffused ==
  Diffuse([raised |-> FALSE,
           value |-> SeedHeightmap(base_layer, elevation_symbol, elevation)],
          elevation_iterations).value

\* Only the given cell of the base layer is of the marker type
OnlySeeded(c) ==
  \A d \in DOMAIN base_layer.cells : (base_layer.cells[d] = elevation_symbol) <=> (d = c)

\* C33: every value of the heightmap _generate_heightmap returns is the
\* diffused value truncated toward zero, never rounded up (2.9 gives 2); an
\* isolated interior seeded cell of elevation e gives floor(e / 9) after one
\* iteration.
C33_HeightmapIsTruncated ==
  lastOp = "_generate_heightmap" =>
    /\ \A c \in DOMAIN heightmap.cells :
         LET v == Diffused.cells[c]
             h == heightmap.cells[c]
         IN /\ h \in Nat
            /\ h * v[2] <= v[1]
            /\ v[1] < (h + 1) * v[2]
    /\ (base_layer.shape = <<3, 3>> /\ OnlySeeded(<<1, 1>>) /\ elevation_iterations = 1) =>
         /\ 9 * Diffused.cells[<<1, 1>>][1] = elevation * Diffused.cells[<<1, 1>>][2]
         /\ heightmap.cells[<<1, 1>>] = elevation \div 9

\* C33 witness: a diffused value of at least 2.5 below the next integer's
\* half, stored as its integer part
C33_Witness ==
  /\ lastOp = "_generate_heightmap"
  /\ \E c \in DOMAIN heightmap.cells :
       LET v == Diffused.cells[c]
           h == heightmap.cells[c]
       IN h >= 2 /\ 2 * (v[1] - h * v[2]) >= v[2]

\* C34: in every state reached by update_pointed_tile and
\* update_selected_tiles calls, with the left button held over several calls
\* or not, no instance appears twice in the selection list.
C34_SelectionHasNoDuplicate ==
  \A m, n \in 1..Len(selected_tiles) :
    selected_tiles[m] = selected_tiles[n] => m = n

\* C35: in every reachable state an instance of the tile list has its
\* selected flag true if and only if it is in the selection list.
C35_FlagIffSelected ==
  \A t \in Range(tiles) : attr[t].selected_tile <=> t \in Range(selected_tiles)

\* C36: in every reachable state the pointed instance is None or a member of
\* the tile list, also right after a rebuild or a delete_tiles and before the
\* next update_pointed_tile.
C36_PointedWithinTiles ==
  pointed_tile = NoTile \/ pointed_tile \in Range(tiles)

EditOps == {"update_pointed_tile", "update_selected_tiles",
            "change_selected_tile_type", "delete_tiles"}

\* C37: from a state where the tile list and the grids agree (each instance's
\* type is terrain[elevation - 1][index], each non-EMPTY cell has exactly one
\* instance), update_pointed_tile, update_selected_tiles,
\* change_selected_tile_type and delete_tiles lead to a state where they
\* agree.
C37_EditsKeepTilesAndGridsAgreed ==
  [][(TilesMatchStack /\ lastOp' \in EditOps) => TilesMatchStack']_vars

\* No cell is non-EMPTY above an EMPTY one, down to layer 0
Contiguous ==
  \A L \in 1..(Len(terrain) - 1) :
    \A c \in DOMAIN terrain[L + 1].cells :
      OccupiedAt(c, L) => (OccupiedAt(c, L - 1) /\ OccupiedAt(c, 0))

\* C38: in every reachable state, after generate_elevation followed
\* by any selections, type changes and deletions, columns are contiguous: a
\* cell non-EMPTY at level L >= 2 is non-EMPTY at level L - 1, and a cell
\* non-EMPTY at level 1 or above is non-EMPTY in layer 0.
C38_ColumnsContiguous == Contiguous

\* C39: after smooth_base_layer completes on a stack that has elevation
\* layers, the stack holds layer 0 only and no instance of the tile list has
\* an elevation above 1.
C39_SmoothingDiscardsElevation ==
  [][(lastOp' = "smooth_base_layer" /\ Len(terrain) > 1 /\ outcome' = NoError) =>
       /\ Len(terrain') = 1
       /\ terrain'[1] = base_layer'
       /\ \A t \in Range(tiles') : t.elevation = 1]_vars

\* C39 witness: smoothing has completed on a terrain whose elevation had been
\* generated (a heightmap with a raised cell is left behind), and the stack
\* holds one layer
C39_Witness ==
  /\ lastOp = "smooth_base_layer"
  /\ outcome = NoError
  /\ heightmap # NoArray
  /\ \E c \in DOMAIN heightmap.cells : heightmap.cells[c] > 0
  /\ Len(terrain) = 1
  /\ \A t \in Range(tiles) : t.elevation = 1

Checked(boxes) == {k \in DOMAIN boxes : boxes[k]}

\* C40: from at most one check box checked, whatever events reach
\* handle_checkbox_events, at most one check box is checked in every state; a
\* left click inside a check box leaves one checked (a click on the checked
\* box leaves it checked), and once one is checked exactly one stays checked.
C40_OneCheckedBox ==
  /\ [](Cardinality(Checked(tile_checkboxes)) <= 1)
  /\ [][/\ (lastOp' = "handle_checkbox_events" /\ call'.fn = "handle_checkbox_events"
            /\ call'.event.type = "MOUSEBUTTONDOWN" /\ call'.event.button = 1
            /\ call'.event.hits # {}) =>
             /\ Cardinality(Checked(tile_checkboxes')) = 1
             /\ Checked(tile_checkboxes') \subseteq call'.event.hits
             /\ \A k \in Range(tile_types) :
                  (call'.event.hits = {k} /\ tile_checkboxes[k]) => tile_checkboxes'[k]
        /\ Cardinality(Checked(tile_checkboxes)) = 1 =>
             Cardinality(Checked(tile_checkboxes')) = 1]_vars

\* C40 witness: the second check box was left-clicked while the first one
\* had been the checked one (its key is still the elevation symbol); the
\* second is checked and the first is not
C40_Witness ==
  /\ lastOp = "handle_checkbox_events"
  /\ call.fn = "handle_checkbox_events"
  /\ call.event = [type |-> "MOUSEBUTTONDOWN", button |-> 1, hits |-> {tile_types[2]}]
  /\ elevation_symbol = tile_types[1]
  /\ tile_checkboxes[tile_types[2]]
  /\ ~tile_checkboxes[tile_types[1]]

====
